---- MODULE Spec2Model ----
(***************************************************************************)
(* A model of option_critic.py: the OptionCritic module (exploration       *)
(* schedule, heads, option termination), the two update procedures         *)
(* critic_loss and actor_loss, and the interaction loop of __main__.       *)
(*                                                                         *)
(* Numbers.  Python floats are modelled by exact fixed-point integers:     *)
(*   - exploration rates are counted in 1/Scale;                           *)
(*   - termination probabilities are counted in 1/PDen, gamma in 1/GDen,   *)
(*     so a bootstrap target is counted in 1/Unit with Unit = PDen*GDen;   *)
(*   - a critic cost is counted in 1/(2*Unit*Unit).                        *)
(* Tensors.  A tensor is a record [v, shape, g]: v its elements in row     *)
(* order, shape its dimensions, g the set of parameter groups that its     *)
(* autograd graph reaches (detach() empties g).                            *)
(* Networks.  The learned maps (convolutions, linear heads) are not        *)
(* interpreted: a forward pass returns any tensor of the right shape whose *)
(* elements are drawn from a small set of values.                          *)
(***************************************************************************)
EXTENDS Integers, Sequences, FiniteSets, TLC

-----------------------------------------------------------------------------
(* Bounds of the model *)

MaxOptions == 2
MaxSteps == 5
MaxBatch == 2
MaxUpdates == 1
NumActions == 2

(* Fixed-point scales *)
Scale == 10 * 100
PDen == 1 + 1
GDen == 1 + 1
Unit == PDen * GDen

(* Constructor defaults, lines 13-16 *)
DefaultEpsStart == Scale
DefaultEpsMin == Scale \div 10
DefaultEpsDecay == 1000000
DefaultEpsTest == Scale \div 20

(* range(10) of the interaction loop *)
LoopSteps == 10

VARIABLES
    num_options,    \* self.num_options
    testing,        \* self.testing
    eps_start,      \* self.eps_start, in 1/Scale
    eps_min,        \* self.eps_min, in 1/Scale
    eps_decay,      \* self.eps_decay
    eps_test,       \* self.eps_test, in 1/Scale
    num_steps,      \* self.num_steps
    version,        \* how many optimizer steps have changed each parameter group
    op,             \* the operation whose result is being returned, or "idle"
    ret,            \* what it was called with and what it returns or raises
    pc,             \* position of __main__ in the interaction loop
    step,           \* the loop variable
    current_option, \* __main__: current_option
    option_termination, \* __main__: option_termination
    greedy_option,  \* __main__: greedy_option
    epsilon,        \* __main__: epsilon
    rand            \* __main__: the value np.random.rand() returned last, in 1/Scale

modelVars == <<num_options, testing, eps_start, eps_min, eps_decay, eps_test>>
loopVars == <<pc, step, current_option, option_termination, greedy_option, epsilon, rand>>
vars == <<num_options, testing, eps_start, eps_min, eps_decay, eps_test, num_steps,
          version, op, ret, pc, step, current_option, option_termination,
          greedy_option, epsilon, rand>>

-----------------------------------------------------------------------------
(* Elementary functions *)

Abs(x) == IF x < 0 THEN -x ELSE x

Min(a, b) == IF a <= b THEN a ELSE b

RECURSIVE SeqSum(_)
SeqSum(s) == IF s = <<>> THEN 0 ELSE Head(s) + SeqSum(Tail(s))

RECURSIVE SeqMax(_)
SeqMax(s) == IF Len(s) = 1 THEN s[1]
             ELSE LET m == SeqMax(Tail(s)) IN IF s[1] >= m THEN s[1] ELSE m

(* index of the first maximal element, counted from 0 *)
ArgMax(s) == CHOOSE i \in 0..(Len(s) - 1) :
                /\ s[i + 1] = SeqMax(s)
                /\ \A j \in 0..(i - 1) : s[j + 1] < s[i + 1]

(* Scale * exp(n/d) for n >= 0, d > 0: the Taylor series, term k+1 being    *)
(* term k times n/(d*(k+1)), summed until the terms vanish.                *)
RECURSIVE ExpSeries(_, _, _, _)
ExpSeries(t, k, n, d) ==
    IF t = 0 THEN 0 ELSE t + ExpSeries((t * n) \div (d * k), k + 1, n, d)

(* Scale * exp(-n/d) *)
ExpNeg(n, d) == (Scale * Scale) \div ExpSeries(Scale, 1, n, d)

-----------------------------------------------------------------------------
(* OptionCritic.__init__ *)

Models == {"live", "target"}
Heads == {"features", "Q", "terminations", "options_W", "options_b"}
Groups == Models \X Heads
LiveGroups == {"live"} \X Heads
TargetGroups == {"target"} \X Heads

(* Exploration schedules the constructor is called with: eps_min <= eps_start *)
(* and eps_decay > 0, the constructor's defaults among them.                 *)
EpsConfigs ==
    {[start |-> s, min |-> m, decay |-> d, test |-> DefaultEpsTest] :
        s \in {Scale \div 2, DefaultEpsStart},
        m \in {0, DefaultEpsMin, Scale \div 2},
        d \in {1, 2, 3}}
    \cup {[start |-> DefaultEpsStart, min |-> DefaultEpsMin,
           decay |-> DefaultEpsDecay, test |-> DefaultEpsTest]}

NoCall == [raised |-> "none"]

Construct(cfg, n, t) ==
    /\ num_options = n
    /\ testing = t
    /\ eps_start = cfg.start
    /\ eps_min = cfg.min
    /\ eps_decay = cfg.decay
    /\ eps_test = cfg.test
    /\ num_steps = 0
    /\ version = [g \in Groups |-> 0]
    /\ op = "idle"
    /\ ret = NoCall

LoopIdle ==
    /\ pc = "idle"
    /\ step = 0
    /\ current_option = 0
    /\ option_termination = FALSE
    /\ greedy_option = 0
    /\ epsilon = 0
    /\ rand = 0

-----------------------------------------------------------------------------
(* OptionCritic.epsilon *)

(* variant: the exponent has the wrong sign *)
EpsilonValueGrowing(n) ==
    eps_min + ((eps_start - eps_min) * ExpSeries(Scale, 1, n, eps_decay)) \div Scale

EpsilonValue(n) == eps_min + ((eps_start - eps_min) * ExpNeg(n, eps_decay)) \div Scale

(* variant: the counter is incremented before the rate is computed *)
EpsilonOfIncrementFirst == IF ~testing THEN EpsilonValue(num_steps + 1) ELSE eps_test

(* variant: the counter is incremented in either mode *)
NumStepsAlwaysCounted == num_steps + 1

(* the value a read returns and the counter it leaves *)
EpsilonOf == IF ~testing THEN EpsilonValue(num_steps) ELSE eps_test

NumStepsAfterRead == IF ~testing THEN num_steps + 1 ELSE num_steps

EpsilonTrain ==
    /\ ~testing
    /\ num_steps < MaxSteps
    /\ ret' = [raised |-> "none", eps |-> EpsilonOf, step |-> num_steps]
    /\ num_steps' = NumStepsAfterRead

EpsilonTest ==
    /\ testing
    /\ ret' = [raised |-> "none", eps |-> EpsilonOf, step |-> num_steps]
    /\ num_steps' = NumStepsAfterRead

EpsilonRead ==
    /\ pc = "idle"
    /\ EpsilonTrain \/ EpsilonTest
    /\ op' = "epsilon"
    /\ UNCHANGED <<modelVars, version, loopVars>>

-----------------------------------------------------------------------------
(* Tensors *)

Tensor(v, shape, g) == [v |-> v, shape |-> shape, g |-> g]

(* variant: detach() forgotten *)
DetachKeepsGraph(t) == t

(* Tensor.detach(): the same values, cut from the autograd graph *)
Detach(t) == [t EXCEPT !.g = {}]

(* variant: an index is valid only when it is in [0, n) *)
IndexOKNonNegative(i, n) == 0 <= i /\ i < n

(* Python and torch indexing: i is valid for a dimension of size n when      *)
(* -n <= i < n, and a negative i counts from the end.                        *)
IndexOK(i, n) == -n <= i /\ i < n

WrapIndex(i, n) == IF i < 0 THEN i + n ELSE i

(* t[i] on the first dimension: a 0-dim tensor has nothing to index *)
ItemOK(t, i) == Len(t.shape) >= 1 /\ IndexOK(i, t.shape[1])

Item(t, i) == Tensor(t.v[WrapIndex(i, t.shape[1]) + 1], Tail(t.shape), t.g)

(* t[:, i] of a 2-dim tensor *)
ColOK(t, i) == Len(t.shape) >= 2 /\ IndexOK(i, t.shape[2])

Col(t, i) == Tensor([b \in 1..t.shape[1] |-> t.v[b][WrapIndex(i, t.shape[2]) + 1]],
                    <<t.shape[1]>>, t.g)

(* t[batch_idx, idx] of a 2-dim tensor, batch_idx = arange(len(idx)) *)
GatherOK(t, idx) == \A b \in 1..Len(idx) : IndexOK(idx[b], t.shape[2])

Gather(t, idx) == Tensor([b \in 1..Len(idx) |-> t.v[b][WrapIndex(idx[b], t.shape[2]) + 1]],
                         <<Len(idx)>>, t.g)

(* Tensor.squeeze(): every dimension of size 1 is removed *)
Squeeze(t) ==
    LET s == t.shape
        kept == SelectSeq(s, LAMBDA d : d # 1)
    IN  IF Len(s) = 2 /\ s[1] = 1 /\ s[2] = 1 THEN Tensor(t.v[1][1], kept, t.g)
        ELSE IF Len(s) = 2 /\ s[1] = 1 THEN Tensor(t.v[1], kept, t.g)
        ELSE IF Len(s) = 2 /\ s[2] = 1
             THEN Tensor([b \in 1..s[1] |-> t.v[b][1]], kept, t.g)
        ELSE IF Len(s) = 1 /\ s[1] = 1 THEN Tensor(t.v[1], kept, t.g)
        ELSE t

(* t.max(dim=-1)[0] *)
MaxLast(t) ==
    IF Len(t.shape) = 2
    THEN Tensor([b \in 1..t.shape[1] |-> SeqMax(t.v[b])], <<t.shape[1]>>, t.g)
    ELSE IF Len(t.shape) = 1 THEN Tensor(SeqMax(t.v), <<>>, t.g)
    ELSE t

-----------------------------------------------------------------------------
(* Forward passes.  The values a network returns are inputs of the model.  *)

EmbedDim == 512

(* rows of termination probabilities, in 1/PDen *)
TermRows(n) == {[i \in 1..n |-> (i + k) % (PDen + 1)] : k \in 0..PDen}

(* rows of option values *)
QRows(n) == {[i \in 1..n |-> IF (i + k) % 2 = 0 THEN 2 ELSE -1] : k \in 0..1}

(* get_state: obs, one entry per batch row, is embedded by m's features *)
GetStateOf(m, obs) == Tensor(obs, <<Len(obs), EmbedDim>>, {<<m, "features">>})

(* get_Q: rows are the values the head returns for the rows of state *)
GetQOf(m, state, rows) ==
    Tensor(rows, <<state.shape[1], num_options>>, state.g \cup {<<m, "Q">>})

(* get_terminations: rows are the sigmoid outputs for the rows of state *)
GetTerminationsOf(m, state, rows) ==
    Tensor(rows, <<state.shape[1], num_options>>, state.g \cup {<<m, "terminations">>})

Observations == {0, 1}

OptionArgs == (-(num_options + 1))..num_options

GetState ==
    /\ pc = "idle"
    /\ \E b \in 1..MaxBatch : \E obs \in [1..b -> Observations] :
          ret' = [raised |-> "none", state |-> GetStateOf("live", obs)]
    /\ op' = "get_state"
    /\ UNCHANGED <<modelVars, num_steps, version, loopVars>>

GetQ ==
    /\ pc = "idle"
    /\ \E obs \in Observations, q \in QRows(num_options) :
          ret' = [raised |-> "none",
                  Q |-> GetQOf("live", GetStateOf("live", <<obs>>), <<q>>)]
    /\ op' = "get_Q"
    /\ UNCHANGED <<modelVars, num_steps, version, loopVars>>

GetTerminations ==
    /\ pc = "idle"
    /\ \E obs \in Observations, p \in TermRows(num_options) :
          ret' = [raised |-> "none",
                  terminations |-> GetTerminationsOf("live", GetStateOf("live", <<obs>>), <<p>>)]
    /\ op' = "get_terminations"
    /\ UNCHANGED <<modelVars, num_steps, version, loopVars>>

(* Bernoulli(p).sample(): 1 is drawn only when p > 0, 0 only when p < 1 *)
BernoulliDraws(p) == {d \in {0, 1} : (d = 1 => p > 0) /\ (d = 0 => p < PDen)}

(* predict_option_termination(state, current_option) *)
PredictResult(state, o, p, q) ==
    LET terms == GetTerminationsOf("live", state, <<p>>)
        Q == GetQOf("live", state, <<q>>)
    IN  IF ~ColOK(terms, o)
        THEN {[raised |-> "IndexError", option |-> o]}
        ELSE {[raised |-> "none", option |-> o, used |-> WrapIndex(o, num_options),
               p |-> p, prob |-> Col(terms, o).v[1], termination |-> (d = 1),
               next_option |-> ArgMax(q), Q |-> q]
              : d \in BernoulliDraws(Col(terms, o).v[1])}

PredictOptionTermination ==
    /\ pc = "idle"
    /\ \E obs \in Observations, o \in OptionArgs,
          p \in TermRows(num_options), q \in QRows(num_options) :
          ret' \in PredictResult(GetStateOf("live", <<obs>>), o, p, q)
    /\ op' = "predict_option_termination"
    /\ UNCHANGED <<modelVars, num_steps, version, loopVars>>

(* log-probabilities and entropies a Categorical reports *)
LogProbs == {-2, -1}
Entropies == {0, 1}

(* get_action(state, option) *)
GetActionResult(state, o) ==
    IF ~IndexOK(o, num_options)
    THEN {[raised |-> "IndexError", option |-> o]}
    ELSE LET g == state.g \cup {<<"live", "options_W">>, <<"live", "options_b">>}
         IN  {[raised |-> "none", option |-> o, used |-> WrapIndex(o, num_options),
               action |-> a, logp |-> Tensor(<<lp>>, <<1>>, g),
               entropy |-> Tensor(<<e>>, <<1>>, g)]
              : a \in 0..(NumActions - 1), lp \in LogProbs, e \in Entropies}

GetAction ==
    /\ pc = "idle"
    /\ \E obs \in Observations, o \in OptionArgs :
          ret' \in GetActionResult(GetStateOf("live", <<obs>>), o)
    /\ op' = "get_action"
    /\ UNCHANGED <<modelVars, num_steps, version, loopVars>>

(* greedy_option(state) *)
GreedyOptionOf(state, q) == ArgMax(GetQOf("live", state, <<q>>).v[1])

GreedyOption ==
    /\ pc = "idle"
    /\ \E obs \in Observations, q \in QRows(num_options) :
          ret' = [raised |-> "none", Q |-> q,
                  option |-> GreedyOptionOf(GetStateOf("live", <<obs>>), q)]
    /\ op' = "greedy_option"
    /\ UNCHANGED <<modelVars, num_steps, version, loopVars>>

-----------------------------------------------------------------------------
(* The update procedures *)

Rewards == {0, 1}

(* args: gamma in 1/GDen, clip_delta in 1/Unit, the regularisers as integers *)
ArgsSet == {[gamma |-> 1, clip_delta |-> Unit, termination_reg |-> 1, entropy_reg |-> 1]}

(* the parameter groups an optimizer handed to an update is bound to *)
Optimizers == {LiveGroups, Groups}

(* optim.zero_grad(); loss.backward(); optim.step(): the groups of optim that *)
(* the loss reaches through its autograd graph are changed                   *)
OptimStep(loss, optim) ==
    [g \in Groups |-> IF g \in loss.g /\ g \in optim THEN version[g] + 1 ELSE version[g]]

(* lines 126-128, one row b of the batch, in 1/Unit *)
CriticTarget(reward, mask, gamma, p, qo, qmax) ==
    reward * Unit + mask * gamma * (PDen - p) * qo + p * GDen * qmax

(* variant: the error is never clipped *)
ClippedCostAlwaysQuadratic(e, c) == e * e

(* lines 136-137 for one error e and threshold c, both in 1/Unit: twice the  *)
(* cost, in 1/(Unit*Unit)                                                   *)
ClippedCost(e, c) ==
    LET quadratic_part == Min(Abs(e), c)
    IN  quadratic_part * quadratic_part + 2 * c * (Abs(e) - quadratic_part)

(* critic_loss, lines 99-138: the batch (options, rewards, dones), the rows  *)
(* pn, q, qp returned by model.get_terminations(next_states),                *)
(* model.get_Q(states) and model_prime.get_Q(next_states_prime)              *)
CriticLossResult(options, rewards, dones, pn, q, qp, args) ==
    LET B == Len(options)
        obs == [b \in 1..B |-> 0]
        masks == [b \in 1..B |-> IF dones[b] THEN 0 ELSE 1]
        states == GetStateOf("live", obs)
        next_states == GetStateOf("live", obs)
        next_states_prime == GetStateOf("target", obs)
        next_termination_probs ==
            Detach(GetTerminationsOf("live", next_states, [b \in 1..B |-> pn]))
        Q == GetQOf("live", states, [b \in 1..B |-> q])
        next_Q_prime == GetQOf("target", next_states_prime, [b \in 1..B |-> qp])
    IN  IF ~GatherOK(next_termination_probs, options)
        THEN [raised |-> "IndexError", options |-> options]
        ELSE
        LET next_options_term_prob == Gather(next_termination_probs, options)
            qo == Gather(next_Q_prime, options)
            qmax == MaxLast(next_Q_prime)
            y == Detach(Tensor([b \in 1..B |->
                                  CriticTarget(rewards[b], masks[b], args.gamma,
                                               next_options_term_prob.v[b],
                                               qo.v[b], qmax.v[b])],
                               <<B>>,
                               next_options_term_prob.g \cup qo.g \cup qmax.g))
            Qsel == Gather(Q, options)
            td_err == Tensor([b \in 1..B |-> y.v[b] - Qsel.v[b] * Unit], <<B>>,
                             y.g \cup Qsel.g)
            cost == [b \in 1..B |-> ClippedCost(td_err.v[b], args.clip_delta)]
            td_cost == Tensor(SeqSum(cost), <<>>, td_err.g)
        IN  [raised |-> "none", options |-> options, rewards |-> rewards,
             dones |-> dones, pn |-> pn, Q |-> q, Qp |-> qp, args |-> args,
             used |-> [b \in 1..B |-> WrapIndex(options[b], num_options)],
             y |-> y, td_err |-> td_err.v, cost |-> cost, loss |-> td_cost]

CriticLossOn(sizes) ==
    /\ pc = "idle"
    /\ version[<<"live", "features">>] < MaxUpdates
    /\ \E B \in sizes : \E options \in [1..B -> OptionArgs] :
          IF \E b \in 1..B : ~IndexOK(options[b], num_options)
          THEN /\ ret' = [raised |-> "IndexError", options |-> options]
               /\ version' = version
          ELSE \E rewards \in [1..B -> Rewards], dones \in [1..B -> BOOLEAN],
                  pn \in TermRows(num_options), q \in QRows(num_options),
                  qp \in QRows(num_options), args \in ArgsSet :
                  /\ ret' = CriticLossResult(options, rewards, dones, pn, q, qp, args)
                  /\ version' \in IF ret'.raised = "none"
                                  THEN {OptimStep(ret'.loss, optim) : optim \in Optimizers}
                                  ELSE {version}
    /\ op' = "critic_loss"
    /\ UNCHANGED <<modelVars, num_steps, loopVars>>

CriticLoss == CriticLossOn(1..MaxBatch)

(* lines 157-159, in 1/Unit *)
ActorTarget(reward, done, gamma, p, qo, qmax) ==
    reward * Unit + (IF done THEN 0 ELSE 1) * gamma * (PDen - p) * qo + p * GDen * qmax

(* actor_loss, lines 147-165: pt, pn, q, qp are the rows returned by         *)
(* model.get_terminations(state), model.get_terminations(next_state),       *)
(* model.get_Q(state) and model_prime.get_Q(next_state_prime)               *)
ActorLossResult(option, logp, entropy, reward, done, pt, pn, q, qp, args) ==
    LET state == GetStateOf("live", <<0>>)
        next_state == GetStateOf("live", <<0>>)
        next_state_prime == GetStateOf("target", <<0>>)
        terms == GetTerminationsOf("live", state, <<pt>>)
        next_terms == GetTerminationsOf("live", next_state, <<pn>>)
        Q == Squeeze(Detach(GetQOf("live", state, <<q>>)))
        next_Q_prime == Squeeze(Detach(GetQOf("target", next_state_prime, <<qp>>)))
    IN  IF ~ColOK(terms, option) \/ ~ColOK(next_terms, option)
           \/ ~ItemOK(next_Q_prime, option) \/ ~ItemOK(Q, option)
        THEN [raised |-> "IndexError", option |-> option]
        ELSE
        LET option_term_prob == Col(terms, option)
            next_option_term_prob == Detach(Col(next_terms, option))
            qo == Item(next_Q_prime, option)
            qmax == MaxLast(next_Q_prime)
            y == Detach(Tensor(<<ActorTarget(reward, done, args.gamma,
                                             next_option_term_prob.v[1], qo.v, qmax.v)>>,
                               <<1>>, next_option_term_prob.g \cup qo.g \cup qmax.g))
            Qo == Item(Q, option)
            Qmax == MaxLast(Q)
            termination_loss ==
                Tensor(<<option_term_prob.v[1] * (Qo.v - Qmax.v + args.termination_reg)>>,
                       <<1>>, option_term_prob.g \cup Qo.g \cup Qmax.g)
            policy_loss ==
                Tensor(<<(-logp.v[1]) * (y.v[1] - Qo.v * Unit)
                         - args.entropy_reg * entropy.v[1] * Unit>>,
                       <<1>>, logp.g \cup y.g \cup Qo.g \cup entropy.g)
            loss == Tensor(<<termination_loss.v[1] * GDen + policy_loss.v[1]>>, <<1>>,
                           termination_loss.g \cup policy_loss.g)
        IN  [raised |-> "none", option |-> option, reward |-> reward, done |-> done,
             pt |-> pt, pn |-> pn, Q |-> q, Qp |-> qp, args |-> args,
             logp |-> logp.v[1], entropy |-> entropy.v[1],
             used |-> WrapIndex(option, num_options),
             term_prob |-> option_term_prob.v[1], y |-> y,
             termination_loss |-> termination_loss.v[1], loss |-> loss]

ActorLoss ==
    /\ pc = "idle"
    /\ version[<<"live", "features">>] < MaxUpdates
    /\ \E option \in OptionArgs :
          IF ~IndexOK(option, num_options)
          THEN /\ ret' = [raised |-> "IndexError", option |-> option]
               /\ version' = version
          ELSE \E act \in GetActionResult(GetStateOf("live", <<0>>), option),
                  reward \in Rewards, done \in BOOLEAN,
                  pt \in TermRows(num_options), pn \in TermRows(num_options),
                  q \in QRows(num_options), qp \in QRows(num_options),
                  args \in ArgsSet :
                  /\ act.action = 0
                  /\ ret' = ActorLossResult(option, act.logp, act.entropy, reward, done,
                                            pt, pn, q, qp, args)
                  /\ version' \in IF ret'.raised = "none"
                                  THEN {OptimStep(ret'.loss, optim) : optim \in Optimizers}
                                  ELSE {version}
    /\ op' = "actor_loss"
    /\ UNCHANGED <<modelVars, num_steps, loopVars>>

-----------------------------------------------------------------------------
(* Specifications *)

InitModel ==
    /\ \E n \in 1..MaxOptions :
          Construct([start |-> DefaultEpsStart, min |-> DefaultEpsMin,
                     decay |-> DefaultEpsDecay, test |-> DefaultEpsTest], n, FALSE)
    /\ LoopIdle

(* the call returns (or its exception propagates) and the caller goes on *)
Return ==
    /\ pc = "idle"
    /\ op # "idle"
    /\ op' = "idle"
    /\ ret' = NoCall
    /\ UNCHANGED <<modelVars, num_steps, version, loopVars>>

(* Execution is single-threaded and synchronous: a call is made when no    *)
(* other call is in progress.                                              *)
NextLoss ==
    \/ op = "idle" /\ PredictOptionTermination
    \/ op = "idle" /\ GetAction
    \/ op = "idle" /\ CriticLoss
    \/ op = "idle" /\ ActorLoss
    \/ Return

SpecLoss == InitModel /\ [][NextLoss]_vars

(* Every operation of the model, on a model in either mode *)
Init ==
    /\ \E n \in 1..MaxOptions, t \in BOOLEAN :
          Construct([start |-> DefaultEpsStart, min |-> DefaultEpsMin,
                     decay |-> 2, test |-> DefaultEpsTest], n, t)
    /\ LoopIdle

Next ==
    \/ op = "idle" /\ EpsilonRead
    \/ op = "idle" /\ GetState
    \/ op = "idle" /\ GetQ
    \/ op = "idle" /\ GetTerminations
    \/ op = "idle" /\ PredictOptionTermination
    \/ op = "idle" /\ GetAction
    \/ op = "idle" /\ GreedyOption
    \/ op = "idle" /\ CriticLossOn({1})
    \/ op = "idle" /\ ActorLoss
    \/ Return

Spec == Init /\ [][Next]_vars

-----------------------------------------------------------------------------
(* __main__: the interaction loop, lines 195-218 *)

(* values np.random.rand() returns, in 1/Scale: it is in [0, 1) *)
RandSamples == {0, Scale \div 2, Scale - 1}

(* lines 195-202 *)
LoopStart ==
    /\ pc = "idle"
    /\ \E q \in QRows(num_options) :
          greedy_option' = GreedyOptionOf(GetStateOf("live", <<0>>), q)
    /\ current_option' = 0
    /\ option_termination' = TRUE
    /\ step' = 0
    /\ pc' = "epsilon"
    /\ UNCHANGED <<modelVars, num_steps, version, op, ret, epsilon, rand>>

(* line 205 *)
LoopEpsilon ==
    /\ pc = "epsilon"
    /\ epsilon' = EpsilonOf
    /\ num_steps' = NumStepsAfterRead
    /\ pc' = "select"
    /\ UNCHANGED <<modelVars, version, op, ret, step, current_option,
                   option_termination, greedy_option, rand>>

(* variant: the option is selected again on every step *)
SelectOptionEveryStep(term, cur, r, eps, greedy, n) ==
    IF r < eps THEN 0..(n - 1) ELSE {greedy}

(* lines 207-208: the values current_option can have after the statement *)
SelectOption(term, cur, r, eps, greedy, n) ==
    IF term THEN (IF r < eps THEN 0..(n - 1) ELSE {greedy}) ELSE {cur}

(* lines 207-208; np.random.rand() is called only when the option ended *)
LoopSelect ==
    /\ pc = "select"
    /\ \E r \in (IF option_termination THEN RandSamples ELSE {rand}) :
          /\ rand' = r
          /\ current_option' \in SelectOption(option_termination, current_option, r,
                                              epsilon, greedy_option, num_options)
    /\ pc' = "act"
    /\ UNCHANGED <<modelVars, num_steps, version, op, ret, step,
                   option_termination, greedy_option, epsilon>>

(* lines 210-213: the action is sampled, the environment steps and the     *)
(* transition is pushed to the buffer                                      *)
LoopAct ==
    /\ pc = "act"
    /\ \E r \in GetActionResult(GetStateOf("live", <<0>>), current_option) :
          r.raised = "none"
    /\ pc' = "predict"
    /\ UNCHANGED <<modelVars, num_steps, version, op, ret, step, current_option,
                   option_termination, greedy_option, epsilon, rand>>

(* lines 215-218, and the loop header of line 203 *)
LoopPredict ==
    /\ pc = "predict"
    /\ \E p \in TermRows(num_options), q \in QRows(num_options) :
          \E r \in PredictResult(GetStateOf("live", <<0>>), current_option, p, q) :
             /\ r.raised = "none"
             /\ option_termination' = r.termination
             /\ greedy_option' = r.next_option
    /\ step' = step + 1
    /\ pc' = IF step + 1 < LoopSteps THEN "epsilon" ELSE "done"
    /\ UNCHANGED <<modelVars, num_steps, version, op, ret, current_option,
                   epsilon, rand>>

InitLoop ==
    /\ \E cfg \in EpsConfigs, n \in 1..MaxOptions : Construct(cfg, n, FALSE)
    /\ LoopIdle

NextLoop ==
    \/ LoopStart
    \/ LoopEpsilon
    \/ LoopSelect
    \/ LoopAct
    \/ LoopPredict

SpecLoop == InitLoop /\ [][NextLoop]_vars

InitEps ==
    /\ \E cfg \in EpsConfigs, t \in BOOLEAN : Construct(cfg, 1, t)
    /\ LoopIdle

NextEps == EpsilonRead

SpecEps == InitEps /\ [][NextEps]_vars

-----------------------------------------------------------------------------
(* Properties *)

CriticDone == op = "critic_loss" /\ ret.raised = "none"
ActorDone == op = "actor_loss" /\ ret.raised = "none"

(* C1: in critic_loss and actor_loss, a transition whose done flag is true *)
(* has the bootstrap target y equal to its reward, whatever the next-state *)
(* termination probability and target option values are.                   *)
C1_DoneTargetIsReward ==
    /\ CriticDone =>
          \A b \in 1..Len(ret.options) :
             ret.dones[b] => ret.y.v[b] = ret.rewards[b] * Unit
    /\ ActorDone => (ret.done => ret.y.v[1] = ret.reward * Unit)

(* reward + (1-done) * gamma * [(1-p) * qo + p * qmax], in 1/Unit *)
BracketedTarget(reward, done, gamma, p, qo, qmax) ==
    reward * Unit + (IF done THEN 0 ELSE 1) * gamma * ((PDen - p) * qo + p * qmax)

(* C2: the bootstrap target of critic_loss, and of actor_loss, is          *)
(* reward + (1-done) * gamma * [(1-p) * Q'[option] + p * max(Q')]: the      *)
(* factor (1-done)*gamma multiplies the continue and the terminate term.   *)
C2_TargetIsBracketed ==
    /\ CriticDone =>
          \A b \in 1..Len(ret.options) :
             ret.y.v[b] = BracketedTarget(ret.rewards[b], ret.dones[b], ret.args.gamma,
                                          ret.pn[ret.used[b] + 1],
                                          ret.Qp[ret.used[b] + 1], SeqMax(ret.Qp))
    /\ ActorDone =>
          ret.y.v[1] = BracketedTarget(ret.reward, ret.done, ret.args.gamma,
                                       ret.pn[ret.used + 1], ret.Qp[ret.used + 1],
                                       SeqMax(ret.Qp))

(* C3: with num_options = 1, actor_loss called with option 0 completes and *)
(* its termination loss is term_prob * termination_reg.                    *)
C3_SingleOptionActorLoss ==
    (op = "actor_loss" /\ num_options = 1 /\ ret.option = 0) =>
        /\ ret.raised = "none"
        /\ ret.termination_loss = ret.term_prob * ret.args.termination_reg

(* C4: in training mode every value a read of epsilon returns lies in      *)
(* [eps_min, eps_start], and a read never returns more than the read       *)
(* before it.                                                              *)
C4_EpsilonNonIncreasing ==
    /\ []((op = "epsilon" /\ ~testing) => (eps_min <= ret.eps /\ ret.eps <= eps_start))
    /\ [][(op = "epsilon" /\ op' = "epsilon" /\ ~testing) => ret'.eps <= ret.eps]_vars

C4_Witness ==
    /\ op = "epsilon" /\ ~testing
    /\ num_steps = MaxSteps
    /\ ret.eps < eps_start
    /\ eps_min < ret.eps

(* C5: num_steps changes only in a training-mode read of epsilon, by       *)
(* exactly 1; a test-mode read returns eps_test and leaves it alone, and   *)
(* no other operation of the model changes it.                             *)
C5_OnlyTrainingReadCounts ==
    [][ /\ (num_steps' # num_steps) =>
              (op' = "epsilon" /\ ~testing /\ num_steps' = num_steps + 1)
        /\ (op = "idle" /\ op' = "epsilon" /\ ~testing) => num_steps' = num_steps + 1
        /\ (op = "idle" /\ op' = "epsilon" /\ testing) =>
              (num_steps' = num_steps /\ ret'.eps = eps_test) ]_vars

C5_Witness ==
    /\ num_steps = MaxSteps
    /\ op = "actor_loss" /\ ret.raised = "none"
    /\ version[<<"live", "features">>] = 1

(* C6: the first read of epsilon on a fresh training-mode model returns    *)
(* eps_start: the k-th read computes the rate from step k-1 and only then  *)
(* increments the counter.                                                 *)
C6_FirstReadIsEpsStart ==
    (op = "epsilon" /\ ~testing) =>
        /\ ret.step = num_steps - 1
        /\ ret.eps = eps_min
                     + ((eps_start - eps_min) * ExpNeg(num_steps - 1, eps_decay)) \div Scale
        /\ num_steps = 1 => ret.eps = eps_start

C6_Witness ==
    /\ op = "epsilon" /\ ~testing /\ num_steps = 1
    /\ ret.eps = eps_start
    /\ eps_decay = 1
    /\ eps_min < eps_start

(* C7: the cost of a transition with error e is 0.5*e^2 when               *)
(* |e| <= clip_delta and clip_delta*(|e| - 0.5*clip_delta) otherwise (the  *)
(* two agree at |e| = clip_delta), and the batch loss is their sum.  Costs *)
(* are held doubled.                                                       *)
C7_ClippedCost ==
    CriticDone =>
        /\ \A b \in 1..Len(ret.options) :
              LET e == ret.td_err[b]
                  c == ret.args.clip_delta
              IN  /\ Abs(e) <= c => ret.cost[b] = e * e
                  /\ Abs(e) >= c => ret.cost[b] = c * (2 * Abs(e) - c)
        /\ ret.loss.v = SeqSum(ret.cost)

C7_Witness ==
    /\ CriticDone
    /\ Len(ret.options) = 2
    /\ Abs(ret.td_err[1]) < ret.args.clip_delta /\ ret.td_err[1] # 0
    /\ Abs(ret.td_err[2]) > ret.args.clip_delta /\ ret.td_err[2] < 0

(* C8: the critic loss reaches, through the autograd graph, only the live  *)
(* model's feature extractor and option-value head; the target it is       *)
(* compared with carries no graph, and a critic update changes neither the *)
(* target model's parameters nor the live termination head.                *)
C8_CriticGradients ==
    [][(op = "idle" /\ op' = "critic_loss") =>
          /\ ret'.raised = "none" =>
                /\ ret'.loss.g = {<<"live", "features">>, <<"live", "Q">>}
                /\ ret'.y.g = {}
          /\ \A g \in TargetGroups \cup {<<"live", "terminations">>} :
                version'[g] = version[g] ]_vars

C8_Witness ==
    /\ CriticDone
    /\ version[<<"live", "Q">>] = 1
    /\ version[<<"target", "Q">>] = 0

(* the option indices an operation was called with *)
OptionIndices ==
    IF op = "critic_loss" THEN {ret.options[b] : b \in 1..Len(ret.options)}
    ELSE IF op \in {"get_action", "predict_option_termination", "actor_loss"}
         THEN {ret.option}
    ELSE {}

(* C9 as stated: an option index outside [0, num_options), negative ones   *)
(* included, makes get_action, predict_option_termination, critic_loss     *)
(* and actor_loss fail.                                                    *)
C9_OutsideRangeFails ==
    (\E o \in OptionIndices : o < 0 \/ o >= num_options) => ret.raised = "IndexError"

(* C9, amended: an index o with o >= num_options or o < -num_options makes *)
(* the four operations fail; an index in [-num_options, -1] is accepted by *)
(* get_action, predict_option_termination and critic_loss, which compute   *)
(* the result of option o + num_options.                                   *)
C9_BeyondRangeFails ==
    /\ (\E o \in OptionIndices : o < -num_options \/ o >= num_options) =>
          ret.raised = "IndexError"
    /\ (/\ op \in {"get_action", "predict_option_termination", "critic_loss"}
        /\ \A o \in OptionIndices : -num_options <= o /\ o < num_options) =>
          /\ ret.raised = "none"
          /\ op = "get_action" =>
                ret.used = (IF ret.option < 0 THEN ret.option + num_options
                            ELSE ret.option)
          /\ op = "predict_option_termination" =>
                ret.prob = ret.p[(IF ret.option < 0 THEN ret.option + num_options
                                  ELSE ret.option) + 1]
          /\ op = "critic_loss" =>
                \A b \in 1..Len(ret.options) :
                   LET o == IF ret.options[b] < 0 THEN ret.options[b] + num_options
                            ELSE ret.options[b]
                   IN  ret.td_err[b] =
                          CriticTarget(ret.rewards[b], IF ret.dones[b] THEN 0 ELSE 1,
                                       ret.args.gamma, ret.pn[o + 1], ret.Qp[o + 1],
                                       SeqMax(ret.Qp))
                          - ret.Q[o + 1] * Unit

C9_Witness ==
    /\ CriticDone
    /\ num_options = 2
    /\ Len(ret.options) = 2
    /\ ret.options[1] = -1 /\ ret.used[1] = 1
    /\ ret.options[2] = 0

(* C10: the loop starts with an option to select; afterwards the current   *)
(* option changes only in the selection of a step whose preceding          *)
(* termination draw was 1: it is kept while the draw is 0, and when the    *)
(* draw is 1 it becomes any option if rand < epsilon and the last reported *)
(* greedy option otherwise, before the next action is taken.               *)
C10_OptionSwitchesOnTermination ==
    /\ []((pc = "epsilon" /\ step = 0) => option_termination)
    /\ [][ /\ (pc = "select" /\ ~option_termination) => current_option' = current_option
           /\ (pc = "select" /\ option_termination) =>
                 /\ pc' = "act"
                 /\ current_option' \in 0..(num_options - 1)
                 /\ rand' >= epsilon => current_option' = greedy_option
           /\ pc \in {"epsilon", "act", "predict"} => current_option' = current_option
         ]_vars

C10_Witness ==
    /\ pc = "act"
    /\ step >= 1
    /\ option_termination
    /\ rand >= epsilon
    /\ current_option = greedy_option
    /\ current_option = 1

====
